---- MODULE Spec2Model ----
(***************************************************************************)
(* A model of technex-3d/src/SpaceBackground.js: the star generator of     *)
(* RealisticStarfield (useMemo), its per-frame twinkle (useFrame) and the  *)
(* nebula texture of CosmicDust.                                           *)
(*                                                                         *)
(* Numbers are fixed point.  A value v of the program is the integer       *)
(* 1000*v ("milli"); an angle a is the integer 10000*a.  Math.random()     *)
(* returns an integer r in 0..9999 that stands for r/10000, a number in    *)
(* [0,1).  A product is rounded to the nearest representable value, as a   *)
(* float product is.                                                       *)
(***************************************************************************)
EXTENDS Integers, Sequences, FiniteSets, TLC

VARIABLES count, i, phase, positions, colors, sizes, magnitudes, drawn, skips, shared, sizeAttr, colorAttr, frames, time, generated, lastRead, lastScint, nebType, px, py, texel

vars == <<count, i, phase, positions, colors, sizes, magnitudes, drawn, skips, shared, sizeAttr, colorAttr, frames, time, generated, lastRead, lastScint, nebType, px, py, texel>>

starVars == <<count, i, phase, positions, colors, sizes, magnitudes, drawn, skips, shared, sizeAttr, colorAttr, frames, time, generated, lastRead, lastScint>>

nebulaVars == <<nebType, px, py, texel>>

----------------------------------------------------------------------------
(* Bounds of the exploration.                                              *)

\* Largest star count of the full program (generation, mount, frames).
MaxCount == 2

\* Largest star count of the generation-only runs over positions.
MaxBandCount == 4

\* Largest star count of the generation-only runs over stellar classes.
MaxClassCount == 2

\* Largest star count of the generation-only runs with fair draws.
MaxRetryCount == 3

\* Skipped iterations are counted up to this number.
MaxSkips == 2

\* Number of rendered frames explored.
MaxFrames == 3

\* Largest magnitude (milli) a number of the model takes; a result beyond it
\* is held at it, the way a float holds at its largest value.
MaxMagnitude == 2000000

----------------------------------------------------------------------------
(* Arithmetic.                                                             *)

\* Math.PI, as an angle.
Pi == 31416

Abs(x) == IF x < 0 THEN -x ELSE x

Min(a, b) == IF a <= b THEN a ELSE b

Max(a, b) == IF a >= b THEN a ELSE b

Sign(x) == IF x < 0 THEN -1 ELSE 1

\* a * b for a milli factor b: the product rounded to nearest, held at
\* MaxMagnitude when it is beyond the model's range.
Mul(a, b) == IF a = 0 \/ b = 0 THEN 0 ELSE IF Abs(a) > (MaxMagnitude * 1000) \div Abs(b) THEN Sign(a) * Sign(b) * MaxMagnitude ELSE Sign(a) * Sign(b) * ((Abs(a) * Abs(b) + 500) \div 1000)

\* The largest k in lo..hi with k * k <= n, by bisection.
RECURSIVE RootBetween(_, _, _)
RootBetween(lo, hi, n) == IF lo >= hi THEN lo ELSE LET mid == (lo + hi + 1) \div 2 IN IF mid * mid <= n THEN RootBetween(mid, hi, n) ELSE RootBetween(lo, mid - 1, n)

\* Math.sqrt of a milli value in [0,1000000]: the milli root, rounded down.
Sqrt(v) == RootBetween(0, 31623, v * 1000)

\* Math.sin of an angle in [0, Pi]: 16p / (5 Pi^2 - 4p) with p = a (Pi - a),
\* exact at 0, Pi/2 and Pi.
SinHalfTurn(a) == LET p == a * (Pi - a) IN (4 * p) \div ((5 * (Pi \div 2) * (Pi \div 2) - p) \div 1000)

\* Math.sin of any angle.
Sin(a) == LET t == a % (2 * Pi) IN IF t <= Pi THEN SinHalfTurn(t) ELSE -SinHalfTurn(t - Pi)

\* Math.cos of any angle.
Cos(a) == Sin(a + Pi \div 2)

\* Math.random() * x for a milli (or angle) x that is a multiple of 0.01.
RandTimes(r, x) == (r * (x \div 10) + 500) \div 1000

\* Math.exp of -x, for an angle-scaled x >= 0: halved once per ln 2, linear
\* in between.
ExpNeg(x) == LET k == x \div 6931 f == x % 6931 IN (1000 - (500 * f) \div 6931) \div (2 ^ k)

----------------------------------------------------------------------------
(* RealisticStarfield: the generator.                                      *)

\* The stellar classes, in table order (M, K, G, F, A, B, O, red giants);
\* a weight is in ten-thousandths, like a random draw.
stellarTypes == << [r |-> 950, g |-> 800, b |-> 650, weight |-> 7500, size |-> 300], [r |-> 1000, g |-> 900, b |-> 700, weight |-> 1200, size |-> 600], [r |-> 1000, g |-> 1000, b |-> 900, weight |-> 800, size |-> 800], [r |-> 1000, g |-> 980, b |-> 850, weight |-> 300, size |-> 1200], [r |-> 950, g |-> 980, b |-> 1000, weight |-> 150, size |-> 1800], [r |-> 900, g |-> 950, b |-> 1000, weight |-> 30, size |-> 2500], [r |-> 850, g |-> 900, b |-> 1000, weight |-> 10, size |-> 3000], [r |-> 1000, g |-> 600, b |-> 400, weight |-> 10, size |-> 4000] >>

\* (Math.random() - 0.5) * Math.PI
GalacticLatitude(r) == ((r - 5000) * Pi) \div 10000

\* Math.exp(-Math.abs(galacticLatitude) * 3)
GalacticDensity(lat) == ExpNeg(Abs(lat) * 3)

\* Math.random() < galacticDensity * 0.3 + 0.1
ShouldPlace(r, density) == r < (Mul(density, 300) + 100) * 10

\* if (!shouldPlace && Math.random() > 0.3): the iteration is skipped.
Skipped(rLat, rPlace, rSkip) == ~ShouldPlace(rPlace, GalacticDensity(GalacticLatitude(rLat))) /\ rSkip > 3000

\* The bands with the two index tests in the wrong order: every star of
\* the first 30% is given the near band.
StarRadiusSwapped(k, n, r) == IF k * 1000 < n * 300 THEN RandTimes(r, 100000) + 50000 ELSE IF k * 1000 < n * 100 THEN RandTimes(r, 300000) + 150000 ELSE RandTimes(r, 800000) + 400000

\* The radius of star k of n, by distance band.
StarRadius(k, n, r) == IF k * 1000 < n * 100 THEN RandTimes(r, 100000) + 50000 ELSE IF k * 1000 < n * 300 THEN RandTimes(r, 300000) + 150000 ELSE RandTimes(r, 800000) + 400000

\* theta = Math.random() * Math.PI * 2
Theta(r) == ((r * Pi) \div 10000) * 2

\* The argument of Math.acos: Math.random() * 2 - 1, the cosine of phi.
CosPhi(r) == RandTimes(r, 2000) - 1000

\* Math.sin(phi) for phi = Math.acos(u): the root of 1 - u^2, phi being in
\* [0, Pi].
SinPhi(r) == Sqrt((1000000 - CosPhi(r) * CosPhi(r)) \div 1000)

\* The three coordinates written for a star; radius * Math.sin(phi) is
\* computed once for x and y.
StarPosition(radius, rTheta, rPhi) == CHOOSE p \in {<< Mul(planar, Cos(Theta(rTheta))), Mul(planar, Sin(Theta(rTheta))), Mul(radius, CosPhi(rPhi)) >> : planar \in {Mul(radius, SinPhi(rPhi))}} : TRUE

\* The loop with rand < cumulative for rand <= cumulative.
RECURSIVE SelectFromStrict(_, _, _)
SelectFromStrict(k, cumulative, rand) == IF k > Len(stellarTypes) THEN 0 ELSE IF rand < cumulative + stellarTypes[k].weight THEN k ELSE SelectFromStrict(k + 1, cumulative + stellarTypes[k].weight, rand)

\* The cumulative-weight loop from class k on: the index of the class
\* selected, or 0 when no class matches.
RECURSIVE SelectFrom(_, _, _)
SelectFrom(k, cumulative, rand) == IF k > Len(stellarTypes) THEN 0 ELSE IF rand <= cumulative + stellarTypes[k].weight THEN k ELSE SelectFrom(k + 1, cumulative + stellarTypes[k].weight, rand)

\* The class selected for a draw: the loop's match, or the default (the
\* first class) set before the loop.
SelectedType(rand) == LET k == SelectFrom(1, 0, rand) IN [index |-> IF k = 0 THEN 1 ELSE k, matched |-> k # 0]

\* finalSize: the class size scaled by the brightness tier of the magnitude.
FinalSize(size, magnitude, r) == IF magnitude < 8500 THEN Mul(size, 100 + RandTimes(r, 300)) ELSE IF magnitude < 9700 THEN Mul(size, 400 + RandTimes(r, 600)) ELSE Mul(size, 1000 + RandTimes(r, 1500))

\* A draw as stored in a Float32Array: rounded to the nearest milli.
Stored(r) == (r + 5) \div 10

\* colorVariation = 1 + (Math.random() - 0.5) * 0.1
ColorVariation(r) == 1000 + RandTimes(r - 5000, 100)

\* The channel without its cap at 1.
StarChannelUncapped(channel, variation) == Mul(channel, variation)

\* Math.min(1, channel * colorVariation)
StarChannel(channel, variation) == Min(1000, Mul(channel, variation))

\* The colour written for a star of a class.
StarColor(type, variation) == << StarChannel(type.r, variation), StarChannel(type.g, variation), StarChannel(type.b, variation) >>

\* One array with element k set to v.
Put(array, k, v) == [array EXCEPT ![k] = v]

\* One RGB or XYZ triple written at k*3, k*3+1, k*3+2.
Put3(array, k, t) == [array EXCEPT ![k * 3] = t[1], ![k * 3 + 1] = t[2], ![k * 3 + 2] = t[3]]

\* The triple of an array at k*3, k*3+1, k*3+2.
Get3(array, k) == << array[k * 3], array[k * 3 + 1], array[k * 3 + 2] >>

\* What is recorded of a star that was never placed.
NotDrawn == [writes |-> 0, lat |-> 0, rand |-> 0, type |-> 0, matched |-> FALSE, variation |-> 0, radius |-> 0]

\* The skip with its index decremented twice.
RetryTwice(k) == k - 2

\* The skip without its i--: the loop moves on past the skipped index.
RetryDropped(k) == k

\* i-- before the continue of a skipped iteration.
Retry(k) == k - 1

\* The body of the loop `for (let i = 0; i < count; i++)`, entered when
\* i < count: a skip runs i-- and continues, a placement writes the four
\* buffers at i.  Either way the loop's update (i++) runs next.
GenIteration(rLat, rPlace, rSkip, rRad, rTheta, rPhi, rType, rMag, rSize, rVar) ==
    /\ phase = "generate"
    /\ i < count
    /\ IF Skipped(rLat, rPlace, rSkip)
       THEN /\ i' = Retry(i)
            /\ skips' = Min(skips + 1, MaxSkips)
            /\ UNCHANGED <<positions, colors, sizes, magnitudes, drawn>>
       ELSE \E radius \in {StarRadius(i, count, rRad)}, sel \in {SelectedType(rType)}, variation \in {ColorVariation(rVar)} :
               /\ positions' = Put3(positions, i, StarPosition(radius, rTheta, rPhi))
               /\ sizes' = Put(sizes, i, FinalSize(stellarTypes[sel.index].size, rMag, rSize))
               /\ magnitudes' = Put(magnitudes, i, Stored(rMag))
               /\ colors' = Put3(colors, i, StarColor(stellarTypes[sel.index], variation))
               /\ drawn' = Put(drawn, i, [writes |-> drawn[i].writes + 1, lat |-> GalacticLatitude(rLat), rand |-> rType, type |-> sel.index, matched |-> sel.matched, variation |-> variation, radius |-> radius])
               /\ i' = i
               /\ skips' = skips
    /\ phase' = "update"
    /\ UNCHANGED <<count, shared, sizeAttr, colorAttr, frames, time, generated, lastRead, lastScint>>
    /\ UNCHANGED nebulaVars

\* The loop's update expression, i++, after the body or a continue.
LoopUpdate ==
    /\ phase = "update"
    /\ i' = i + 1
    /\ phase' = "generate"
    /\ UNCHANGED <<count, positions, colors, sizes, magnitudes, drawn, skips, shared, sizeAttr, colorAttr, frames, time, generated, lastRead, lastScint>>
    /\ UNCHANGED nebulaVars

\* The state when useMemo starts generating n stars: four zero-filled
\* Float32Arrays.
StartGeneration(n) ==
    /\ count = n
    /\ i = 0
    /\ phase = "generate"
    /\ positions = [k \in 0..(n * 3 - 1) |-> 0]
    /\ colors = [k \in 0..(n * 3 - 1) |-> 0]
    /\ sizes = [k \in 0..(n - 1) |-> 0]
    /\ magnitudes = [k \in 0..(n - 1) |-> 0]
    /\ drawn = [k \in 0..(n - 1) |-> NotDrawn]
    /\ skips = 0
    /\ shared = FALSE
    /\ sizeAttr = << >>
    /\ colorAttr = << >>
    /\ frames = 0
    /\ time = 0
    /\ generated = [sizes |-> << >>, colors |-> << >>]
    /\ lastRead = << >>
    /\ lastScint = << >>

\* A pixel of the texture that was not computed yet.
NoTexel == [done |-> FALSE, r |-> 0, g |-> 0, b |-> 0, alpha |-> [nan |-> FALSE, value |-> 0]]

\* No nebula texture is being synthesised.
NoNebula ==
    /\ nebType = "none"
    /\ px = 0
    /\ py = 0
    /\ texel = NoTexel

----------------------------------------------------------------------------
(* RealisticStarfield: the Points element and the frame callback.          *)

\* The loop ends (i < count is false), useMemo returns the four arrays and
\* <Points positions colors sizes> is mounted: ref.current is set and
\* geometry.attributes.size.array and .color.array hold the generated
\* values.  Points decides whether an attribute's array is the array it
\* was passed (byRef, what drei's Points does: it hands the typed array to
\* the bufferAttribute) or a copy of it.
Mount(byRef) ==
    /\ phase = "generate"
    /\ ~(i < count)
    /\ phase' = "mounted"
    /\ shared' = byRef
    /\ sizeAttr' = sizes
    /\ colorAttr' = colors
    /\ generated' = [sizes |-> sizes, colors |-> colors]
    /\ UNCHANGED <<count, i, positions, colors, sizes, magnitudes, drawn, skips, frames, time, lastRead, lastScint>>
    /\ UNCHANGED nebulaVars

\* twinkleIntensity = Math.max(0, (sizes[i] - 0.5) * 0.3)
TwinkleIntensity(size) == Max(0, Mul(size - 500, 300))

\* time * (1 + Math.random() * 3) + i * 0.123, as an angle.
TwinkleAngle(t, r, k) == Mul(t, 1000 + RandTimes(r, 3000)) * 10 + k * 1230

\* scintillation = Math.sin(...) * twinkleIntensity + 1
Scintillation(t, r, k, size) == Mul(Sin(TwinkleAngle(t, r, k)), TwinkleIntensity(size)) + 1000

\* The factor without its floor of 0.3.
TwinkleFactorUnclamped(scint) == scint

\* The factor of the size: Math.max(0.3, scintillation)
TwinkleFactor(scint) == Max(300, scint)

\* colorShift = (scintillation - 1) * 0.05
ColorShift(scint) == Mul(scint - 1000, 50)

\* The three colour channels the frame callback writes for a base colour.
TwinkleColor(c, shift) == << Min(1000, Mul(c[1], 1000 + shift)), Min(1000, Mul(c[2], 1000 - Mul(shift, 300))), Min(1000, Mul(c[3], 1000 - Mul(shift, 600))) >>

\* The scintillation of every star in a frame at elapsed time t with the
\* draw rs[k] for star k, from the sizes the callback reads.
FrameScintillation(t, rs) == [k \in 0..(count - 1) |-> Scintillation(t, rs[k], k, sizes[k])]

\* The size array after the frame callback's loop, from the sizes it reads.
FrameSizes(scint) == [k \in 0..(count - 1) |-> Mul(sizes[k], TwinkleFactor(scint[k]))]

\* The colour array after the frame callback's loop, from the colours it
\* reads.
FrameColors(scint) == [j \in 0..(count * 3 - 1) |-> TwinkleColor(Get3(colors, j \div 3), ColorShift(scint[j \div 3]))[(j % 3) + 1]]

\* The useFrame callback with ref.current set, at elapsed time t and with
\* the draw rs[k] for star k: for every star it reads sizes[k] and the
\* colour at colors[k*3..], and writes the attributes' arrays.  When an
\* attribute's array is the generated array itself, the write lands in
\* the array the next frame reads.
Frame(t, rs) ==
    /\ phase = "mounted"
    /\ frames < MaxFrames
    /\ t >= time
    /\ \E scint \in {FrameScintillation(t, rs)} :
          /\ lastScint' = scint
          /\ sizeAttr' = FrameSizes(scint)
          /\ colorAttr' = FrameColors(scint)
    /\ sizes' = IF shared THEN sizeAttr' ELSE sizes
    /\ colors' = IF shared THEN colorAttr' ELSE colors
    /\ lastRead' = [k \in 0..(count - 1) |-> [size |-> sizes[k], color |-> Get3(colors, k)]]
    /\ time' = t
    /\ frames' = frames + 1
    /\ UNCHANGED <<count, i, phase, positions, magnitudes, drawn, skips, shared, generated>>
    /\ UNCHANGED nebulaVars

----------------------------------------------------------------------------
(* The whole component: generation, mount and frames.                      *)

\* The elapsed times (milli) of the frames explored.
Times == {1571, 7854}

\* The draws of the frequency multiplier explored.
Freqs == {0, 6667}

Init == (\E n \in 0..MaxCount : StartGeneration(n)) /\ NoNebula

Generate == \E rType \in {0, 9995}, rMag \in {5000, 9900} : GenIteration(5000, 3000, 2000, 5000, 2500, 9000, rType, rMag, 9000, 5000)

Mounted == \E byRef \in BOOLEAN : Mount(byRef)

Render == \E t \in Times, rs \in [0..(count - 1) -> Freqs] : Frame(t, rs)

Next == Generate \/ LoopUpdate \/ Mounted \/ Render

Spec == Init /\ [][Next]_vars

----------------------------------------------------------------------------
(* Generation alone, over positions: the draws that decide the skip, the   *)
(* radius and the direction vary, the others are held.                     *)

InitBands == (\E n \in 0..MaxBandCount : StartGeneration(n)) /\ NoNebula

GenerateBands == \E rLat \in {0, 5000}, rSkip \in {2000, 8000}, rRad \in {0, 9900}, rPhi \in {5000, 9000} : GenIteration(rLat, 3000, rSkip, rRad, 2500, rPhi, 0, 5000, 5000, 5000)

NextBands == GenerateBands \/ LoopUpdate

SpecBands == InitBands /\ [][NextBands]_vars

----------------------------------------------------------------------------
(* Generation alone, over stellar classes: the draws that decide the skip, *)
(* the class and the colour variation vary, the others are held.           *)

InitClasses == (\E n \in 0..MaxClassCount : StartGeneration(n)) /\ NoNebula

GenerateClasses == \E rSkip \in {2000, 8000}, rType \in {0, 7500, 7501, 8700, 9500, 9501, 9800, 9950, 9980, 9990, 9991, 9999}, rVar \in {0, 5000, 9999} : GenIteration(0, 3000, rSkip, 5000, 2500, 9000, rType, 5000, 5000, rVar)

NextClasses == GenerateClasses \/ LoopUpdate

SpecClasses == InitClasses /\ [][NextClasses]_vars

----------------------------------------------------------------------------
(* Generation alone, with fair draws: an iteration is either accepted (the *)
(* star is placed) or skipped, and the draws are fair, so that an index    *)
(* that is retried again and again is eventually accepted.                 *)

InitRetry == (\E n \in 0..MaxRetryCount : StartGeneration(n)) /\ NoNebula

\* An iteration whose draws place the star: shouldPlace is true, or the
\* third draw is at most 0.3.
AcceptedIteration == \E rPlace \in {500, 3000}, rSkip \in {2000, 8000}, rType \in {0, 9000} : ~Skipped(0, rPlace, rSkip) /\ GenIteration(0, rPlace, rSkip, 5000, 2500, 9000, rType, 5000, 5000, 5000)

\* An iteration whose draws skip the star.
SkippedIteration == \E rPlace \in {500, 3000}, rSkip \in {2000, 8000} : Skipped(0, rPlace, rSkip) /\ GenIteration(0, rPlace, rSkip, 5000, 2500, 9000, 0, 5000, 5000, 5000)

NextRetry == AcceptedIteration \/ SkippedIteration \/ LoopUpdate

\* The loop runs on once entered, and the draws are fair.
FairDraws == WF_vars(LoopUpdate) /\ SF_vars(AcceptedIteration)

SpecRetry == InitRetry /\ [][NextRetry]_vars /\ FairDraws

----------------------------------------------------------------------------
(* CosmicDust: the nebula texture.                                         *)

\* canvas.width and canvas.height, the side of the raster.
TextureSize == 512

\* nx * a + ny * b as an angle, for nx = x / 512 and ny = y / 512.
NebulaAngle(x, y, a, b) == ((x * a + y * b) * 10000) \div TextureSize

\* One octave of the noise: Math.sin(angle) times n/16.
Octave(angle, n) == (Sin(angle) * n) \div 16

\* turbulence = Math.sin(nx * 80 + Math.cos(ny * 60) * 2) * 0.3
Turbulence(x, y) == Mul(Sin(NebulaAngle(x, y, 80, 0) + Cos(NebulaAngle(x, y, 0, 60)) * 2 * 10), 300)

\* The noise of a pixel before it is normalised: four octaves and the
\* turbulence.
RawNoise(x, y) == Octave(NebulaAngle(x, y, 12, 8), 8) + Octave(NebulaAngle(x, y, 24, 16), 4) + Octave(NebulaAngle(x, y, 48, 32), 2) + Octave(NebulaAngle(x, y, 96, 64), 1) + Turbulence(x, y)

\* noise = (noise + 1) * 0.5
Normalized(noise) == Mul(noise + 1000, 500)

\* The base without its floor of 0.
PowerBaseUnclamped(noise) == noise - 400

\* The base of the power: Math.max(0, noise - 0.4)
PowerBase(noise) == Max(0, noise - 400)

\* Math.pow(base, 2.5): base squared times its root; NaN for a negative
\* base, whose power with a fractional exponent is not a number.
Pow25(base) == IF base < 0 THEN [nan |-> TRUE, value |-> 0] ELSE [nan |-> FALSE, value |-> Mul(Mul(base, base), Sqrt(base))]

\* alpha = Math.min(255, noise * 80); NaN stays NaN.
Alpha(p) == IF p.nan THEN p ELSE [nan |-> FALSE, value |-> Min(255000, Mul(p.value, 80000))]

\* The alpha computed for the pixel (x, y).
PixelAlpha(x, y) == Alpha(Pow25(PowerBase(Normalized(RawNoise(x, y)))))

\* The body of the loops over y and x for one pixel: the alpha and the
\* palette of the nebula's type.
Shade ==
    /\ nebType # "none"
    /\ ~texel.done
    /\ texel' = IF nebType = "dark" THEN [done |-> TRUE, r |-> 20, g |-> 15, b |-> 10, alpha |-> PixelAlpha(px, py)] ELSE [done |-> TRUE, r |-> 180, g |-> 200, b |-> 255, alpha |-> PixelAlpha(px, py)]
    /\ UNCHANGED <<nebType, px, py>>
    /\ UNCHANGED starVars

\* Any pixel of the raster, of a nebula of either type.
InitNebula ==
    /\ StartGeneration(0)
    /\ nebType \in {"dark", "reflection"}
    /\ px \in 0..(TextureSize - 1)
    /\ py \in 0..(TextureSize - 1)
    /\ texel = NoTexel

NextNebula == Shade

SpecNebula == InitNebula /\ [][NextNebula]_vars

----------------------------------------------------------------------------
(* The properties.                                                         *)

\* Star k was written by a placement.
Placed(k) == drawn[k].writes > 0

\* The generator's loop has ended: i < count is false at the loop's test.
GenerationDone == phase = "generate" /\ ~(i < count)

\* The squared length of star k's position, in units of 0.2.
RadiusSquared(k) == LET p == Get3(positions, k) IN (p[1] \div 200) * (p[1] \div 200) + (p[2] \div 200) * (p[2] \div 200) + (p[3] \div 200) * (p[3] \div 200)

\* The radius bounds of the band of star k of n, in units of 0.2.
BandOf(k, n) == IF k * 10 < n THEN [lo |-> 250, hi |-> 750] ELSE IF k * 10 < n * 3 THEN [lo |-> 750, hi |-> 2250] ELSE [lo |-> 2000, hi |-> 6000]

\* The sum of the weights of the first c classes.
RECURSIVE CumulativeWeight(_)
CumulativeWeight(c) == IF c = 0 THEN 0 ELSE CumulativeWeight(c - 1) + stellarTypes[c].weight

\* The sine of the elevation of star k above the plane z = 0 (milli).
Elevation(k) == Abs(positions[k * 3 + 2]) \div (drawn[k].radius \div 1000)

\* C1: two evaluations of the frame callback for the same elapsed time, the
\* same star, the same base size and the same base colour write the same
\* size and the same colour channels.  Stated of two consecutive frames.
C1_TwinkleDeterministic == [][(phase = "mounted" /\ frames >= 1 /\ frames' = frames + 1 /\ time' = time) => \A k \in 0..(count - 1) : (lastRead'[k] = lastRead[k]) => (sizeAttr'[k] = sizeAttr[k] /\ Get3(colorAttr', k) = Get3(colorAttr, k))]_vars

\* C2: when generation finishes, the position and colour buffers hold
\* exactly count triples and the size and magnitude buffers count scalars,
\* and every index was written by exactly one placement, none left at its
\* zero initial value, whatever was skipped and retried on the way.
C2_EveryIndexWrittenOnce == GenerationDone => (/\ i = count /\ DOMAIN positions = 0..(count * 3 - 1) /\ DOMAIN colors = 0..(count * 3 - 1) /\ DOMAIN sizes = 0..(count - 1) /\ DOMAIN magnitudes = 0..(count - 1) /\ \A k \in 0..(count - 1) : (drawn[k].writes = 1 /\ sizes[k] > 0 /\ Get3(positions, k) # <<0, 0, 0>> /\ \A c \in 0..2 : colors[k * 3 + c] > 0))

\* A finished generation of at least three stars in which at least two
\* iterations were skipped and retried.
C2_Witness == GenerationDone /\ count >= 3 /\ skips >= 2

\* C3: after a frame, the size written for every star is the base size
\* the callback read times a factor that is at least 0.3 and at most
\* 1 + twinkleIntensity, twinkleIntensity = max(0, (base - 0.5) * 0.3); it
\* is positive for a positive base.
C3_SizeFactorClamped == (phase = "mounted" /\ frames >= 1) => \A k \in 0..(count - 1) : LET read == lastRead[k].size factor == Max(300, lastScint[k]) IN (sizeAttr[k] = Mul(read, factor) /\ factor <= 1000 + Max(0, Mul(read - 500, 300)) /\ sizeAttr[k] >= Mul(read, 300) /\ (read > 0 => sizeAttr[k] > 0))

\* A frame in which one star's scintillation fell below 0.3 (the floor
\* applies) and one star's rose above 1.
C3_Witness == phase = "mounted" /\ frames >= 1 /\ (\E k \in 0..(count - 1) : lastScint[k] < 300 /\ sizeAttr[k] = Mul(lastRead[k].size, 300)) /\ (\E k \in 0..(count - 1) : lastScint[k] > 1000 /\ sizeAttr[k] > lastRead[k].size)

\* C4: the length of every placed star's position is within the radius
\* band of its index: [50,150] for i < 0.1 N, [150,450] for
\* 0.1 N <= i < 0.3 N, [400,1200] otherwise; so within [50,1200].  The
\* coordinates are whole multiples of 0.2, so the squared length is exact.
C4_RadiusWithinBand == \A k \in 0..(count - 1) : Placed(k) => (/\ \A c \in 0..2 : positions[k * 3 + c] % 200 = 0 /\ RadiusSquared(k) >= BandOf(k, count).lo * BandOf(k, count).lo /\ RadiusSquared(k) <= BandOf(k, count).hi * BandOf(k, count).hi /\ RadiusSquared(k) >= 250 * 250 /\ RadiusSquared(k) <= 6000 * 6000)

\* Four stars generated: star 0 at the top of the near band (149), star 1
\* at the bottom of the middle band (150), star 3 at the top of the far
\* band (1192).
C4_Witness == GenerationDone /\ count = 4 /\ RadiusSquared(0) = 745 * 745 /\ RadiusSquared(1) = 750 * 750 /\ RadiusSquared(3) = 5960 * 5960

\* C5: every colour channel of every generated star is in [0,1]: it is the
\* channel of the selected class times a variation in [0.95,1.05], capped
\* at 1.
C5_ColorsWithinUnit == (\A j \in 0..(count * 3 - 1) : colors[j] >= 0 /\ colors[j] <= 1000) /\ (\A k \in 0..(count - 1) : Placed(k) => LET type == stellarTypes[drawn[k].type] v == drawn[k].variation IN (v >= 950 /\ v <= 1050 /\ Get3(colors, k) = << Min(1000, Mul(type.r, v)), Min(1000, Mul(type.g, v)), Min(1000, Mul(type.b, v)) >>))

\* A star one of whose channels was capped at 1 and another of whose
\* channels stayed below 1.
C5_Witness == \E k \in 0..(count - 1) : Placed(k) /\ Mul(stellarTypes[drawn[k].type].r, drawn[k].variation) > 1000 /\ colors[k * 3] = 1000 /\ colors[k * 3 + 2] < 1000

\* C6: the eight weights sum to 1, and every draw selects, by a match in
\* the loop, the first class in table order whose cumulative weight is at
\* least the draw: class c is selected exactly on the draws in
\* (cumulative(c-1), cumulative(c)], an interval as wide as its weight.
C6_FirstClassReachingDraw == CumulativeWeight(Len(stellarTypes)) = 10000 /\ (\A k \in 0..(count - 1) : Placed(k) => (/\ drawn[k].matched /\ drawn[k].type \in 1..Len(stellarTypes) /\ CumulativeWeight(drawn[k].type) >= drawn[k].rand /\ (drawn[k].type > 1 => CumulativeWeight(drawn[k].type - 1) < drawn[k].rand)))

\* A draw equal to the first cumulative weight, which selects the first
\* class, and a draw above 0.999, which selects the last.
C6_Witness == \E j, k \in 0..(count - 1) : Placed(j) /\ Placed(k) /\ drawn[j].rand = 7500 /\ drawn[j].type = 1 /\ drawn[k].rand > 9990 /\ drawn[k].type = 8

\* C7: for every pixel and both nebula types the alpha computed is a
\* number, the power never being taken of a negative base, and is within
\* [0,255].
C7_AlphaDefinedInRange == texel.done => (/\ ~texel.alpha.nan /\ texel.alpha.value >= 0 /\ texel.alpha.value <= 255000 /\ PowerBase(Normalized(RawNoise(px, py))) >= 0)

\* A pixel whose normalised noise is below 0.4, where the floor of 0 keeps
\* the base of the power from being negative.
C7_Witness == texel.done /\ Normalized(RawNoise(px, py)) < 400 /\ texel.alpha.value = 0

\* C8: after any number of frames every star's size entry is the size that
\* generation produced times the clamped factor of the latest frame, the
\* base size and colour read by a frame being the generated values.
C8_NoAccumulation == (phase = "mounted" /\ frames >= 1) => \A k \in 0..(count - 1) : (lastRead[k] = [size |-> generated.sizes[k], color |-> Get3(generated.colors, k)] /\ sizeAttr[k] = Mul(generated.sizes[k], Max(300, lastScint[k])))

\* C9: a star from a lower sampled galactic latitude lies no farther from
\* the plane than a star from a higher one.
C9_LowLatitudeNearPlane == \A j, k \in 0..(count - 1) : (Placed(j) /\ Placed(k) /\ Abs(drawn[j].lat) < Abs(drawn[k].lat)) => Elevation(j) <= Elevation(k)

\* C10: after generation and any number of frames every channel of the
\* star colour buffer is within [0,1].
C10_ColorBufferWithinUnit == phase = "mounted" => \A j \in 0..(count * 3 - 1) : colorAttr[j] >= 0 /\ colorAttr[j] <= 1000

\* At the loop's test the index is the first unwritten one: it is within
\* 0..count, every star before it was placed and no star from it on.
IndexIsFirstUnwritten == phase = "generate" => (i >= 0 /\ i <= count /\ \A k \in 0..(count - 1) : Placed(k) <=> k < i)

\* C11: generation terminates for every count: a skipped iteration retries
\* the same index (at the loop's test the index is never below 0 and never
\* past an unwritten star), and under fair draws the loop index eventually
\* reaches count.
C11_GenerationTerminates == [](IndexIsFirstUnwritten /\ i >= -1) /\ <>(GenerationDone /\ i = count)

\* A generation that ended after the first index and a later one were
\* skipped and retried.
C11_Witness == GenerationDone /\ i = count /\ count >= 2 /\ skips >= 2 /\ \A k \in 0..(count - 1) : Placed(k)

====
